---- MODULE Spec2Model ----
(***************************************************************************)
(* Model of the service worker library src/lib/swLib.js and of its         *)
(* configuration in src/sw.js: the strategy resolver (determineStrategy),  *)
(* the executors cacheFirst, networkFirst and fetchAndCache, the install   *)
(* time preCache and the install / activate / fetch listeners.             *)
(*                                                                         *)
(* Strings that the code takes apart (URL paths, mapping keys) are         *)
(* sequences of one-character strings, so that lastIndexOf and substring   *)
(* are computed as JavaScript computes them.                               *)
(***************************************************************************)
EXTENDS Integers, Sequences, FiniteSets, TLC

VARIABLES
    strategyMapping,  \* config.strategyMapping: a function from keys to strategy names
    enableLogging,    \* config.enableLogging
    resolved,         \* last call of determineStrategy: [path, strategy]
    phase,            \* lifecycle of the worker
    installEv,        \* what the install listener asked of its event
    pre,              \* the await preCache is suspended at, or how it ended
    console,          \* the messages preCache has written to the console
    cache,            \* the named cache: request key -> stored response
    lastPut,          \* for each key, the request whose cache.put committed last
    netVer,           \* which content the network currently serves for the URLs
    reqs              \* the fetch events handled so far, in order of arrival

vars == <<strategyMapping, enableLogging, resolved, phase, installEv, pre,
          console, cache, lastPut, netVer, reqs>>

\* the configuration and the resolver's record; the lifecycle of the worker
cfgVars == <<strategyMapping, enableLogging, resolved>>
lifeVars == <<phase, installEv, pre, console>>

----------------------------------------------------------------------------
(* Bounds *)

MaxPathLen == 2     \* longest request path drawn for the resolver
MaxKeys == 2        \* most entries of a drawn strategyMapping
MaxReq == 2         \* most fetch events handled in one behaviour

----------------------------------------------------------------------------
(* Values *)

Undefined == "undefined"     \* JavaScript undefined: a missing property

CacheFirstName == "cache-first"
NetworkFirstName == "network-first"
NetworkOnlyName == "network-only"  \* any other name: handled by the else branch

StrategyNames == {CacheFirstName, NetworkFirstName, NetworkOnlyName}

Alphabet == {"/", ".", "a"}

DefaultKey == <<"d", "e", "f", "a", "u", "l", "t">>

----------------------------------------------------------------------------
(* JavaScript string operations, on sequences of characters; indices are   *)
(* the 0-based indices of JavaScript.                                      *)

\* String.prototype.lastIndexOf(c): index of the last occurrence, or -1.
LastIndexOf(s, c) ==
    IF \E i \in 1..Len(s) : s[i] = c
    THEN (CHOOSE i \in 1..Len(s) :
             s[i] = c /\ \A j \in (i + 1)..Len(s) : s[j] # c) - 1
    ELSE -1

\* String.prototype.substring(start): a negative start counts as 0, a start
\* past the end as the length.
Substring(s, start) ==
    LET b == IF start < 0 THEN 0 ELSE IF start > Len(s) THEN Len(s) ELSE start
    IN  SubSeq(s, b + 1, Len(s))

\* obj[key] on a plain object: undefined when the key is not a property.
Lookup(m, k) == IF k \in DOMAIN m THEN m[k] ELSE Undefined

\* Truthiness of a property value that is a string or undefined.
Truthy(v) == v \notin {Undefined, ""}

\* pathname.substring(pathname.lastIndexOf('.'))
Extension(pathname) == Substring(pathname, LastIndexOf(pathname, "."))

\* determineStrategy, by a bug that tries the extension before the path
determineStrategyExtFirst(m, pathname) ==
    IF Truthy(Lookup(m, Extension(pathname))) THEN Lookup(m, Extension(pathname))
    ELSE IF Truthy(Lookup(m, pathname)) THEN Lookup(m, pathname)
    ELSE IF Truthy(Lookup(m, DefaultKey)) THEN Lookup(m, DefaultKey)
    ELSE NetworkFirstName

\* determineStrategy, by a bug that skips the extension rule
determineStrategyNoExt(m, pathname) ==
    IF Truthy(Lookup(m, pathname)) THEN Lookup(m, pathname)
    ELSE IF Truthy(Lookup(m, DefaultKey)) THEN Lookup(m, DefaultKey)
    ELSE NetworkFirstName

\* determineStrategy, by a bug that ignores the configured default
determineStrategyNoDefault(m, pathname) ==
    IF Truthy(Lookup(m, pathname)) THEN Lookup(m, pathname)
    ELSE IF Truthy(Lookup(m, Extension(pathname))) THEN Lookup(m, Extension(pathname))
    ELSE NetworkFirstName

\* determineStrategy(request), with request.url reduced to its pathname
determineStrategy(m, pathname) ==
    IF Truthy(Lookup(m, pathname)) THEN Lookup(m, pathname)
    ELSE IF Truthy(Lookup(m, Extension(pathname))) THEN Lookup(m, Extension(pathname))
    ELSE IF Truthy(Lookup(m, DefaultKey)) THEN Lookup(m, DefaultKey)
    ELSE NetworkFirstName

----------------------------------------------------------------------------
(* Inputs of the resolver *)

RECURSIVE StringsOfLen(_)
StringsOfLen(n) ==
    IF n = 0 THEN {<<>>}
    ELSE {Append(s, c) : s \in StringsOfLen(n - 1), c \in Alphabet}

StringsUpTo(n) == UNION {StringsOfLen(k) : k \in 1..n}

\* URL.pathname of an http(s) URL always starts with '/'
Pathnames == {s \in StringsUpTo(MaxPathLen) : s[1] = "/"}

\* the keys a request can hit: its path, its extension, and 'default'
MappingKeys == Pathnames \cup {Extension(p) : p \in Pathnames} \cup {DefaultKey}

\* every object with at most MaxKeys properties, keys in MappingKeys and
\* strategy names as values
Mappings ==
    UNION {[d -> StrategyNames] :
              d \in {k \in SUBSET MappingKeys : Cardinality(k) <= MaxKeys}}

\* what determineStrategy returned for which path; NoResolution before any call
NoResolution == [path |-> <<>>, strategy |-> Undefined]

----------------------------------------------------------------------------
(* The resolver alone: every mapping, every path *)

ResolverInit ==
    /\ strategyMapping \in Mappings
    /\ enableLogging = FALSE
    /\ resolved = NoResolution
    /\ phase = "parsed"
    /\ installEv = [waitUntil |-> FALSE, skipWaiting |-> FALSE]
    /\ pre = "idle"
    /\ console = {}
    /\ cache = [u \in {} |-> Undefined]
    /\ lastPut = [u \in {} |-> 0]
    /\ netVer = "v1"
    /\ reqs = <<>>

Resolve(p) ==
    /\ resolved' = [path |-> p, strategy |-> determineStrategy(strategyMapping, p)]
    /\ UNCHANGED <<strategyMapping, enableLogging, lifeVars, cache, lastPut,
                   netVer, reqs>>

ResolverNext == \E p \in Pathnames : Resolve(p)

SpecResolver == ResolverInit /\ [][ResolverNext]_vars

----------------------------------------------------------------------------
(* The configuration of src/sw.js and the requests of the worker model *)

IndexHtml == <<"/", "i", "n", "d", "e", "x", ".", "h", "t", "m", "l">>
ApiPath == <<"/", "a", "p", "i">>
DotJs == <<".", "j", "s">>
DotCss == <<".", "c", "s", "s">>
DotPng == <<".", "p", "n", "g">>

\* strategyMapping of src/sw.js
SwMapping ==
    (DefaultKey :> NetworkFirstName) @@ (IndexHtml :> CacheFirstName) @@
    (DotJs :> CacheFirstName) @@ (DotCss :> CacheFirstName) @@
    (DotPng :> CacheFirstName)

\* the same mapping with a default that is neither cache-first nor
\* network-first, which the fetch listener sends to its else branch
PassMapping == (DefaultKey :> NetworkOnlyName) @@ SwMapping

WorkerMappings == {SwMapping, PassMapping}

\* the request URLs of the worker model, and the (shortened) precacheFiles
Urls == {IndexHtml, ApiPath}
precacheFiles == <<IndexHtml>>

----------------------------------------------------------------------------
(* Responses *)

NetStatuses == {200, 500}

\* the contents the server can hold; a change swaps one for the other
Versions == {"v1", "v2"}

\* no Response object: undefined from cache.match, null from fetch
NoResponse == [kind |-> "none", url |-> <<>>, ver |-> "", status |-> 0]

\* the response the network serves for url while it holds content v
NetResponse(url, v, s) == [kind |-> "network", url |-> url, ver |-> v, status |-> s]

\* new Response('Offline', { status: 503, statusText: 'Service Unavailable' })
Offline503 == [kind |-> "synthetic", url |-> <<>>, ver |-> "", status |-> 503]

\* Response.ok
IsOk(resp) == resp.status >= 200 /\ resp.status <= 299

\* A settled promise: ok is TRUE when it resolved (with resp), FALSE when it
\* rejected.
Resolved(resp) == [ok |-> TRUE, resp |-> resp]
Rejected == [ok |-> FALSE, resp |-> NoResponse]

\* what caches.open(cacheName) can settle with
OpenResults == {Resolved(NoResponse), Rejected}

\* what cache.match(request) can settle with, the cache being c
MatchResults(c, url) == {Resolved(c[url]), Rejected}

\* what fetch(request) can settle with, the network content being at version v
FetchResults(url, v) ==
    {Resolved(NetResponse(url, v, s)) : s \in NetStatuses}
        \cup {Resolved(NoResponse), Rejected}

----------------------------------------------------------------------------
(* The executors.  A request r is the activation record of one fetch event: *)
(* pc is the await it is suspended at, and each operator below is the code   *)
(* that runs when the awaited promise settles with io, up to the next await  *)
(* or return.                                                                *)

\* the promise given to respondWith rejects with an error of class err
Raise(r, err) == [r EXCEPT !.pc = "rejected", !.err = err]

\* the promise given to respondWith resolves with resp
Return(r, resp) == [r EXCEPT !.pc = "done", !.resp = resp]

\* fetchAndCache, by a bug that lets a failed fetch escape (no try/catch)
fetchAndCacheNoCatch(r, io) ==
    CASE r.pc = "fac_open" ->
            IF io.ok
            THEN [r EXCEPT !.pc = "fac_fetch", !.net = "pending"]
            ELSE Raise(r, "CacheError")
      [] r.pc = "fac_fetch" ->
            IF io.ok /\ io.resp # NoResponse
            THEN Return([r EXCEPT !.net = "ok", !.put = "pending"], io.resp)
            ELSE Raise([r EXCEPT !.net = IF io.ok THEN "null" ELSE "error"],
                       "NetworkError")

\* fetchAndCache, by a bug that also stores the response made up in the catch
fetchAndCacheStoreOffline(r, io) ==
    CASE r.pc = "fac_open" ->
            IF io.ok
            THEN [r EXCEPT !.pc = "fac_fetch", !.net = "pending"]
            ELSE Raise(r, "CacheError")
      [] r.pc = "fac_fetch" ->
            IF io.ok /\ io.resp # NoResponse
            THEN Return([r EXCEPT !.net = "ok", !.put = "pending"], io.resp)
            ELSE Return([r EXCEPT !.net = IF io.ok THEN "null" ELSE "error",
                                  !.put = "pending"],
                        Offline503)

\* fetchAndCache, by a bug that takes only an ok response for a success
fetchAndCacheOkOnly(r, io) ==
    CASE r.pc = "fac_open" ->
            IF io.ok
            THEN [r EXCEPT !.pc = "fac_fetch", !.net = "pending"]
            ELSE Raise(r, "CacheError")
      [] r.pc = "fac_fetch" ->
            IF io.ok /\ io.resp # NoResponse
            THEN IF IsOk(io.resp)
                 THEN Return([r EXCEPT !.net = "ok", !.put = "pending"], io.resp)
                 ELSE Return([r EXCEPT !.net = "ok"], Offline503)
            ELSE Return([r EXCEPT !.net = IF io.ok THEN "null" ELSE "error"],
                        Offline503)

fetchAndCache(r, io) ==
    CASE r.pc = "fac_open" ->
            IF io.ok
            THEN [r EXCEPT !.pc = "fac_fetch", !.net = "pending"]
            ELSE Raise(r, "CacheError")
      [] r.pc = "fac_fetch" ->
            IF io.ok /\ io.resp # NoResponse
            THEN \* cache.put(request, networkResponse.clone()) is not awaited
                 Return([r EXCEPT !.net = "ok", !.put = "pending"], io.resp)
            ELSE Return([r EXCEPT !.net = IF io.ok THEN "null" ELSE "error"],
                        Offline503)

\* cacheFirst, by a bug that goes to the network although the lookup found
\* an entry
cacheFirstAlwaysFetch(r, io) ==
    CASE r.pc = "cf_open" ->
            IF io.ok
            THEN [r EXCEPT !.pc = "cf_match"]
            ELSE Raise(r, "CacheError")
      [] r.pc = "cf_match" ->
            [r EXCEPT !.pc = "fac_open",
                      !.looked = IF io.ok THEN "absent" ELSE "error"]
      [] OTHER -> fetchAndCache(r, io)

cacheFirst(r, io) ==
    CASE r.pc = "cf_open" ->
            IF io.ok
            THEN [r EXCEPT !.pc = "cf_match"]
            ELSE Raise(r, "CacheError")
      [] r.pc = "cf_match" ->
            IF io.ok /\ io.resp # NoResponse
            THEN Return([r EXCEPT !.looked = "found"], io.resp)
            ELSE \* caught: return fetchAndCache(request), which opens the cache
                 [r EXCEPT !.pc = "fac_open",
                           !.looked = IF io.ok THEN "absent" ELSE "error"]
      [] OTHER -> fetchAndCache(r, io)

\* networkFirst, by a bug that answers 503 on a failed fetch without looking
\* into the cache
networkFirstNoFallback(r, io) ==
    CASE r.pc = "nf_open" ->
            IF io.ok
            THEN [r EXCEPT !.pc = "nf_fetch", !.net = "pending"]
            ELSE Raise(r, "CacheError")
      [] r.pc = "nf_fetch" ->
            IF io.ok /\ io.resp # NoResponse
            THEN Return([r EXCEPT !.net = "ok", !.put = "pending"], io.resp)
            ELSE Return([r EXCEPT !.net = IF io.ok THEN "null" ELSE "error"],
                        Offline503)
      [] r.pc = "nf_match" -> r

\* networkFirst, by a bug that forgets to store the network response
networkFirstNoPut(r, io) ==
    CASE r.pc = "nf_open" ->
            IF io.ok
            THEN [r EXCEPT !.pc = "nf_fetch", !.net = "pending"]
            ELSE Raise(r, "CacheError")
      [] r.pc = "nf_fetch" ->
            IF io.ok /\ io.resp # NoResponse
            THEN Return([r EXCEPT !.net = "ok"], io.resp)
            ELSE [r EXCEPT !.pc = "nf_match",
                           !.net = IF io.ok THEN "null" ELSE "error"]
      [] r.pc = "nf_match" ->
            IF io.ok
            THEN IF io.resp # NoResponse
                 THEN Return([r EXCEPT !.looked = "found"], io.resp)
                 ELSE Return([r EXCEPT !.looked = "absent"], Offline503)
            ELSE Raise([r EXCEPT !.looked = "error"], "CacheError")

\* networkFirst, by a bug that awaits cache.put before returning
networkFirstAwaitPut(r, io) ==
    CASE r.pc = "nf_open" ->
            IF io.ok
            THEN [r EXCEPT !.pc = "nf_fetch", !.net = "pending"]
            ELSE Raise(r, "CacheError")
      [] r.pc = "nf_fetch" ->
            IF io.ok /\ io.resp # NoResponse
            THEN [r EXCEPT !.pc = "nf_put", !.net = "ok", !.put = "pending"]
            ELSE [r EXCEPT !.pc = "nf_match",
                           !.net = IF io.ok THEN "null" ELSE "error"]
      [] r.pc = "nf_match" ->
            IF io.ok
            THEN IF io.resp # NoResponse
                 THEN Return([r EXCEPT !.looked = "found"], io.resp)
                 ELSE Return([r EXCEPT !.looked = "absent"], Offline503)
            ELSE Raise([r EXCEPT !.looked = "error"], "CacheError")

networkFirst(r, io) ==
    CASE r.pc = "nf_open" ->
            IF io.ok
            THEN [r EXCEPT !.pc = "nf_fetch", !.net = "pending"]
            ELSE Raise(r, "CacheError")
      [] r.pc = "nf_fetch" ->
            IF io.ok /\ io.resp # NoResponse
            THEN \* cache.put(request, networkResponse.clone()) is not awaited
                 Return([r EXCEPT !.net = "ok", !.put = "pending"], io.resp)
            ELSE [r EXCEPT !.pc = "nf_match",
                           !.net = IF io.ok THEN "null" ELSE "error"]
      [] r.pc = "nf_match" ->
            IF io.ok
            THEN IF io.resp # NoResponse
                 THEN Return([r EXCEPT !.looked = "found"], io.resp)
                 ELSE Return([r EXCEPT !.looked = "absent"], Offline503)
            ELSE \* the await is inside the catch block: nothing catches it
                 Raise([r EXCEPT !.looked = "error"], "CacheError")

\* the else branch, by a bug that answers a failed fetch like the strategies
passThroughOffline(r, io) ==
    IF io.ok /\ io.resp # NoResponse
    THEN Return([r EXCEPT !.net = "ok"], io.resp)
    ELSE Return([r EXCEPT !.net = IF io.ok THEN "null" ELSE "error"], Offline503)

\* event.respondWith(fetch(event.request)): the else branch of the listener
passThrough(r, io) ==
    IF io.ok /\ io.resp # NoResponse
    THEN Return([r EXCEPT !.net = "ok"], io.resp)
    ELSE Raise([r EXCEPT !.net = IF io.ok THEN "null" ELSE "error"],
               IF io.ok THEN "TypeError" ELSE "NetworkError")

\* the fetch listener: the record of a new fetch event for path p
\* (afterPrev: the fetch event before it had been answered when it arrived)
NewRequest(m, p, afterPrev) ==
    LET strategy == determineStrategy(m, p)
    IN  [url |-> p, strategy |-> strategy,
         pc |-> IF strategy = CacheFirstName THEN "cf_open"
                ELSE IF strategy = NetworkFirstName THEN "nf_open"
                ELSE "pt_fetch",
         resp |-> NoResponse, err |-> "none",
         net |-> IF strategy \in {CacheFirstName, NetworkFirstName}
                 THEN "none" ELSE "pending",
         looked |-> "none", put |-> "none", afterPrev |-> afterPrev]

----------------------------------------------------------------------------
(* The platform's cache and the install time preCache *)

\* a cache that caches.open has just created
EmptyCache == [u \in Urls |-> NoResponse]

\* cache.put, by a bug that keeps an entry that is already there
PutIfAbsent(c, url, resp) ==
    IF c[url] = NoResponse THEN [c EXCEPT ![url] = resp] ELSE c

\* cache.put(request, response), once it commits
Put(c, url, resp) == [c EXCEPT ![url] = resp]

\* the fetches cache.addAll(files) makes, one result for each file
AddAllFetches(files, v) ==
    LET fs == {files[k] : k \in 1..Len(files)}
    IN  {outs \in [fs -> UNION {FetchResults(f, v) : f \in fs}] :
            \A f \in fs : outs[f] \in FetchResults(f, v) \ {Resolved(NoResponse)}}

\* cache.addAll resolves only if every fetch resolved with an ok response;
\* it then stores all of them, and stores nothing otherwise
AddAllOk(outs) == \A f \in DOMAIN outs : outs[f].ok /\ IsOk(outs[f].resp)

\* cache.addAll, by a bug that resolves without storing anything
AddAllNoStore(c, outs) == c

AddAll(c, outs) ==
    IF AddAllOk(outs)
    THEN [u \in DOMAIN c |-> IF u \in DOMAIN outs THEN outs[u].resp ELSE c[u]]
    ELSE c

----------------------------------------------------------------------------
(* The worker: lifecycle events *)

\* log(message): console.log only if logging is enabled (msgs: the messages
\* of one call site, none or one)
log(enabled, out, msgs) == IF enabled THEN out \cup msgs ELSE out

CompletedMessage == "Pre-caching completed successfully."
FailedMessage == "Pre-caching failed"

\* preCache, by a bug that lets the failure escape (no try/catch)
preCacheNoCatch(at, ok) ==
    CASE at = "open" ->
            IF ok THEN [pre |-> "addAll", msgs |-> {}]
            ELSE [pre |-> "rejected", msgs |-> {}]
      [] at = "addAll" ->
            IF ok THEN [pre |-> "stored", msgs |-> {CompletedMessage}]
            ELSE [pre |-> "rejected", msgs |-> {}]

\* preCache: the code that runs when the promise awaited at `at` has resolved
\* (ok) or rejected.  It ends "stored" or "failed", its promise resolved in
\* both cases; "rejected" would be its promise rejecting.
preCache(at, ok) ==
    CASE at = "open" ->
            IF ok THEN [pre |-> "addAll", msgs |-> {}]
            ELSE [pre |-> "failed", msgs |-> {FailedMessage}]
      [] at = "addAll" ->
            IF ok THEN [pre |-> "stored", msgs |-> {CompletedMessage}]
            ELSE [pre |-> "failed", msgs |-> {FailedMessage}]

PreCacheSettled(at) == at \in {"stored", "failed", "rejected"}

\* the install listener, by a bug that calls preCache() without handing its
\* promise to event.waitUntil
installListenerNoWaitUntil == [waitUntil |-> FALSE, skipWaiting |-> TRUE]

\* the install listener: event.waitUntil(preCache()); self.skipWaiting()
installListener == [waitUntil |-> TRUE, skipWaiting |-> TRUE]

NotInstalling == [waitUntil |-> FALSE, skipWaiting |-> FALSE]

WorkerInit ==
    /\ strategyMapping \in WorkerMappings
    /\ resolved = NoResolution
    /\ phase = "parsed"
    /\ installEv = NotInstalling
    /\ pre = "idle"
    /\ console = {}
    /\ cache = EmptyCache
    /\ lastPut = [u \in Urls |-> 0]
    /\ netVer = "v1"
    /\ reqs = <<>>

\* the worker as src/sw.js configures it: enableLogging: true
Init == WorkerInit /\ enableLogging = TRUE

\* install listener; preCache runs up to its await of caches.open
InstallEvent ==
    /\ phase = "parsed"
    /\ phase' = "installing"
    /\ installEv' = installListener
    /\ pre' = "open"
    /\ UNCHANGED <<cfgVars, console, cache, lastPut, netVer, reqs>>

\* preCache: caches.open settled; a rejection is caught and logged
PreCacheOpened(io) ==
    /\ pre = "open"
    /\ pre' = preCache(pre, io.ok).pre
    /\ console' = log(enableLogging, console, preCache(pre, io.ok).msgs)
    /\ UNCHANGED <<cfgVars, phase, installEv, cache, lastPut, netVer, reqs>>

\* preCache: cache.addAll settled; a rejection is caught and logged
PreCacheAddAll(outs) ==
    /\ pre = "addAll"
    /\ cache' = AddAll(cache, outs)
    /\ lastPut' = [u \in Urls |->
                      IF AddAllOk(outs) /\ u \in DOMAIN outs THEN 0 ELSE lastPut[u]]
    /\ pre' = preCache(pre, AddAllOk(outs)).pre
    /\ console' = log(enableLogging, console, preCache(pre, AddAllOk(outs)).msgs)
    /\ UNCHANGED <<cfgVars, phase, installEv, netVer, reqs>>

\* the install event is over once the promise given to waitUntil has settled:
\* the worker is installed if it resolved and discarded if it rejected
InstallSettled ==
    /\ phase = "installing"
    /\ installEv.waitUntil => PreCacheSettled(pre)
    /\ phase' = IF installEv.waitUntil /\ pre = "rejected"
                THEN "redundant" ELSE "installed"
    /\ UNCHANGED <<cfgVars, installEv, pre, console, cache, lastPut, netVer, reqs>>

\* activate listener: event.waitUntil(self.clients.claim()); after
\* skipWaiting the installed worker does not wait for an older one
ActivateEvent ==
    /\ phase = "installed"
    /\ phase' = "activating"
    /\ UNCHANGED <<cfgVars, installEv, pre, console, cache, lastPut, netVer, reqs>>

\* clients.claim() settled: the worker is active and receives fetch events
ClaimSettled ==
    /\ phase = "activating"
    /\ phase' = "active"
    /\ UNCHANGED <<cfgVars, installEv, pre, console, cache, lastPut, netVer, reqs>>

----------------------------------------------------------------------------
(* The worker: fetch events *)

Settled(r) == r.pc \in {"done", "rejected"}

\* fetch listener
FetchEvent(p) ==
    /\ phase = "active"
    /\ Len(reqs) < MaxReq
    /\ reqs' = Append(reqs, NewRequest(strategyMapping, p,
                                       Len(reqs) > 0 /\ Settled(reqs[Len(reqs)])))
    /\ UNCHANGED <<cfgVars, lifeVars, cache, lastPut, netVer>>

\* Resume, by a bug that handles the fetch events one after the other
ResumeSerial(i, pc, next) ==
    /\ reqs[i].pc = pc
    /\ \A k \in 1..(i - 1) : Settled(reqs[k])
    /\ reqs' = [reqs EXCEPT ![i] = next]
    /\ UNCHANGED <<cfgVars, lifeVars, cache, lastPut, netVer>>

\* request i, suspended at the await pc, resumes with the settled result io
Resume(i, pc, next) ==
    /\ reqs[i].pc = pc
    /\ reqs' = [reqs EXCEPT ![i] = next]
    /\ UNCHANGED <<cfgVars, lifeVars, cache, lastPut, netVer>>

CacheFirstOpened(i, io) == Resume(i, "cf_open", cacheFirst(reqs[i], io))

CacheFirstMatched(i, io) == Resume(i, "cf_match", cacheFirst(reqs[i], io))

FetchAndCacheOpened(i, io) == Resume(i, "fac_open", cacheFirst(reqs[i], io))

FetchAndCacheFetched(i, io) == Resume(i, "fac_fetch", cacheFirst(reqs[i], io))

NetworkFirstOpened(i, io) == Resume(i, "nf_open", networkFirst(reqs[i], io))

NetworkFirstFetched(i, io) == Resume(i, "nf_fetch", networkFirst(reqs[i], io))

NetworkFirstMatched(i, io) == Resume(i, "nf_match", networkFirst(reqs[i], io))

PassThroughFetched(i, io) == Resume(i, "pt_fetch", passThrough(reqs[i], io))

\* PutSettled, by a bug that deletes the entry when the write fails
PutSettledEvicting(i, ok) ==
    /\ reqs[i].put = "pending"
    /\ reqs' = [reqs EXCEPT ![i].put = IF ok THEN "committed" ELSE "failed"]
    /\ cache' = Put(cache, reqs[i].url, IF ok THEN reqs[i].resp ELSE NoResponse)
    /\ lastPut' = IF ok THEN [lastPut EXCEPT ![reqs[i].url] = i] ELSE lastPut
    /\ UNCHANGED <<cfgVars, lifeVars, netVer>>

\* the cache.put that request i left behind commits or fails
PutSettled(i, ok) ==
    /\ reqs[i].put = "pending"
    /\ reqs' = [reqs EXCEPT ![i].put = IF ok THEN "committed" ELSE "failed"]
    /\ cache' = IF ok THEN Put(cache, reqs[i].url, reqs[i].resp) ELSE cache
    /\ lastPut' = IF ok THEN [lastPut EXCEPT ![reqs[i].url] = i] ELSE lastPut
    /\ UNCHANGED <<cfgVars, lifeVars, netVer>>

\* the content behind the URLs changes on the server
NetworkChange(v) ==
    /\ v # netVer
    /\ netVer' = v
    /\ UNCHANGED <<cfgVars, lifeVars, cache, lastPut, reqs>>

\* the steps of request i in Next: the promise it awaits settles and its
\* strategy function runs on
Advance(i) ==
    \/ \E io \in OpenResults :
          \/ CacheFirstOpened(i, io)
          \/ FetchAndCacheOpened(i, io)
          \/ NetworkFirstOpened(i, io)
    \/ \E io \in MatchResults(cache, reqs[i].url) :
          \/ CacheFirstMatched(i, io)
          \/ NetworkFirstMatched(i, io)
    \/ \E io \in FetchResults(reqs[i].url, netVer) :
          \/ FetchAndCacheFetched(i, io)
          \/ NetworkFirstFetched(i, io)
          \/ PassThroughFetched(i, io)

Next ==
    \/ InstallEvent
    \/ \E io \in OpenResults : PreCacheOpened(io)
    \/ \E outs \in AddAllFetches(precacheFiles, netVer) : PreCacheAddAll(outs)
    \/ InstallSettled
    \/ ActivateEvent
    \/ ClaimSettled
    \/ \E p \in Urls : FetchEvent(p)
    \/ \E i \in DOMAIN reqs :
          \/ \E io \in OpenResults :
                \/ CacheFirstOpened(i, io)
                \/ FetchAndCacheOpened(i, io)
                \/ NetworkFirstOpened(i, io)
          \/ \E io \in MatchResults(cache, reqs[i].url) :
                \/ CacheFirstMatched(i, io)
                \/ NetworkFirstMatched(i, io)
          \/ \E io \in FetchResults(reqs[i].url, netVer) :
                \/ FetchAndCacheFetched(i, io)
                \/ NetworkFirstFetched(i, io)
                \/ PassThroughFetched(i, io)
          \/ \E ok \in BOOLEAN : PutSettled(i, ok)
    \/ \E v \in Versions : NetworkChange(v)

Spec == Init /\ [][Next]_vars

----------------------------------------------------------------------------
(* Properties of the executors *)

IsCacheFirst(r) == r.strategy = CacheFirstName
IsNetworkFirst(r) == r.strategy = NetworkFirstName
NetFailed(r) == r.net \in {"null", "error"}

\* C1: on the cacheFirst miss path with a successful fetch, the duplicate is
\* committed to the cache before the response is returned: a cache-first
\* request that has returned a network response has its cache.put committed.
C1_StoredBeforeReturn ==
    \A i \in DOMAIN reqs :
        (IsCacheFirst(reqs[i]) /\ reqs[i].pc = "done" /\ reqs[i].net = "ok")
            => reqs[i].put = "committed"

\* C2: of two consecutive identical cache-first requests, the second arriving
\* after the first was answered, both get the same response and only the
\* first may have contacted the network.  (Stated for a first request that
\* was answered with a stored or fetched response and for lookups that
\* resolved, so that nothing but the handling of the store is at stake.)
C2_CacheFirstIdempotent ==
    \A i \in DOMAIN reqs : \A j \in DOMAIN reqs :
        (/\ j = i + 1
         /\ reqs[j].afterPrev
         /\ reqs[i].url = reqs[j].url
         /\ IsCacheFirst(reqs[i]) /\ IsCacheFirst(reqs[j])
         /\ reqs[i].pc = "done" /\ reqs[j].pc = "done"
         /\ reqs[i].resp.kind = "network"
         /\ reqs[i].looked # "error" /\ reqs[j].looked # "error")
            => (reqs[i].resp = reqs[j].resp /\ reqs[j].net = "none")

\* C3: cacheFirst and networkFirst never raise when the cache store fails:
\* no cache-first or network-first request ends rejected with a cache error.
C3_CacheFailureRecovered ==
    \A i \in DOMAIN reqs :
        (IsCacheFirst(reqs[i]) \/ IsNetworkFirst(reqs[i]))
            => ~(reqs[i].pc = "rejected" /\ reqs[i].err = "CacheError")

\* the step in which cacheFirst's lookup resolves while the cache holds an
\* entry for the request returns that entry, without a fetch
C4_HitStep ==
    \A i \in DOMAIN reqs :
        (/\ reqs[i].pc = "cf_match"
         /\ reqs'[i] # reqs[i]
         /\ reqs'[i].looked # "error"
         /\ cache[reqs[i].url] # NoResponse)
            => (/\ reqs'[i].pc = "done"
                /\ reqs'[i].resp = cache[reqs[i].url]
                /\ reqs'[i].net = "none")

\* a request served from the cache is done and has neither fetched nor stored
C4_HitState ==
    \A i \in DOMAIN reqs :
        (IsCacheFirst(reqs[i]) /\ reqs[i].looked = "found")
            => (reqs[i].pc = "done" /\ reqs[i].net = "none" /\ reqs[i].put = "none")

\* C4: whenever cacheFirst's lookup resolves while the cache holds an entry
\* for the request, cacheFirst returns that entry, and a request served from
\* the cache has made no network fetch and never makes one, whatever the
\* network would answer.
C4_CacheFirstHit == []C4_HitState /\ [][C4_HitStep]_vars

\* a cache-first request was answered from the cache while the network
\* serves something else than the stored entry
C4_Witness ==
    \E i \in DOMAIN reqs :
        /\ IsCacheFirst(reqs[i]) /\ reqs[i].pc = "done"
        /\ reqs[i].looked = "found" /\ reqs[i].net = "none"
        /\ reqs[i].resp.kind = "network" /\ reqs[i].resp.ver # netVer

\* a failed fetch leads to the lookup, and the step in which the lookup
\* resolves returns the entry of the cache, or the 503 if there is none
C5_FallbackStep ==
    \A i \in DOMAIN reqs :
        /\ (reqs[i].pc = "nf_fetch" /\ NetFailed(reqs'[i]))
              => reqs'[i].pc = "nf_match"
        /\ (/\ reqs[i].pc = "nf_match"
            /\ reqs'[i] # reqs[i]
            /\ reqs'[i].looked # "error")
              => (/\ reqs'[i].pc = "done"
                  /\ reqs'[i].resp = IF cache[reqs[i].url] # NoResponse
                                      THEN cache[reqs[i].url] ELSE Offline503)

\* after a failed fetch networkFirst is looking up, or has returned what the
\* lookup found, or the 503 when it found nothing, or the lookup rejected
C5_FallbackState ==
    \A i \in DOMAIN reqs :
        (IsNetworkFirst(reqs[i]) /\ NetFailed(reqs[i]))
            => /\ reqs[i].pc \in {"nf_match", "done", "rejected"}
               /\ reqs[i].pc = "done" =>
                     \/ reqs[i].looked = "found" /\ reqs[i].resp.kind = "network"
                     \/ reqs[i].looked = "absent" /\ reqs[i].resp = Offline503
               /\ reqs[i].pc = "rejected" => reqs[i].looked = "error"

\* C5: when networkFirst's fetch rejects or yields null it looks the request
\* up in the cache; it returns the entry the lookup finds, and the synthetic
\* 503 only if the lookup finds none, never while it found an entry.
C5_NetworkFirstFallback == []C5_FallbackState /\ [][C5_FallbackStep]_vars

\* a network-first request whose fetch failed was answered from the cache
C5_Witness ==
    \E i \in DOMAIN reqs :
        /\ IsNetworkFirst(reqs[i]) /\ reqs[i].pc = "done"
        /\ NetFailed(reqs[i]) /\ reqs[i].looked = "found"
        /\ reqs[i].resp = cache[reqs[i].url]

\* the step of a successful fetch returns what the network serves then and
\* issues the put; the step in which the put commits makes the entry equal it
C6_FreshStep ==
    \A i \in DOMAIN reqs :
        /\ (reqs[i].pc = "nf_fetch" /\ reqs'[i].net = "ok")
              => (/\ reqs'[i].pc = "done"
                  /\ reqs'[i].resp \in
                        {NetResponse(reqs[i].url, netVer, s) : s \in NetStatuses}
                  /\ reqs'[i].put = "pending")
        /\ (/\ IsNetworkFirst(reqs[i])
            /\ reqs[i].put = "pending" /\ reqs'[i].put = "committed")
              => cache'[reqs[i].url] = reqs[i].resp

\* a network-first request whose fetch succeeded has returned a network
\* response for its own URL and has issued a put
C6_FreshState ==
    \A i \in DOMAIN reqs :
        (IsNetworkFirst(reqs[i]) /\ reqs[i].net = "ok")
            => (/\ reqs[i].pc = "done"
                /\ reqs[i].resp.kind = "network"
                /\ reqs[i].resp.url = reqs[i].url
                /\ reqs[i].put # "none")

\* C6: whenever networkFirst's fetch succeeds it returns the response the
\* network serves at that moment, whatever the cache holds, and leaves a
\* cache.put of that response behind; when that put commits, the cache entry
\* of the request equals the response.
C6_NetworkFirstFresh == []C6_FreshState /\ [][C6_FreshStep]_vars

\* a network-first request replaced a different entry that an earlier request
\* for the same key had stored
C6_Witness ==
    \E i \in DOMAIN reqs : \E j \in DOMAIN reqs :
        /\ j < i
        /\ IsNetworkFirst(reqs[i]) /\ IsNetworkFirst(reqs[j])
        /\ reqs[i].url = reqs[j].url
        /\ reqs[i].net = "ok" /\ reqs[j].net = "ok"
        /\ reqs[i].put = "committed" /\ reqs[j].put = "committed"
        /\ reqs[i].resp # reqs[j].resp
        /\ cache[reqs[i].url] = reqs[i].resp

\* C7: cacheFirst on a miss with a failing network returns the synthetic 503,
\* and neither cacheFirst nor networkFirst ever rejects with a network error.
C7_NoNetworkException ==
    \A i \in DOMAIN reqs :
        /\ (IsCacheFirst(reqs[i]) /\ NetFailed(reqs[i]))
              => (reqs[i].pc = "done" /\ reqs[i].resp = Offline503)
        /\ (/\ IsCacheFirst(reqs[i]) \/ IsNetworkFirst(reqs[i])
            /\ reqs[i].pc = "rejected")
              => reqs[i].err \notin {"NetworkError", "TypeError"}

\* a cache-first request missed the cache, its fetch rejected, and it was
\* answered with the synthetic 503
C7_Witness ==
    \E i \in DOMAIN reqs :
        /\ IsCacheFirst(reqs[i]) /\ reqs[i].looked = "absent"
        /\ reqs[i].net = "error"
        /\ reqs[i].pc = "done" /\ reqs[i].resp = Offline503

----------------------------------------------------------------------------
(* Properties of the resolver *)

HasDot(p) == \E k \in 1..Len(p) : p[k] = "."

\* the part of p from its last '.' to its end, for a p that has a '.'
FromLastDot(p) ==
    LET k == CHOOSE n \in 1..Len(p) :
                 p[n] = "." /\ \A q \in (n + 1)..Len(p) : p[q] # "."
    IN  [n \in 1..(Len(p) - k + 1) |-> p[k + n - 1]]

IsPathKey(p) == p \in DOMAIN strategyMapping
IsExtensionKey(p) == HasDot(p) /\ FromLastDot(p) \in DOMAIN strategyMapping
WasResolved == resolved # NoResolution

\* C8: a request whose path is a key of strategyMapping resolves to the value
\* of that key, also when its extension is a key with another value.
C8_PathPrecedence ==
    (WasResolved /\ IsPathKey(resolved.path))
        => resolved.strategy = strategyMapping[resolved.path]

\* path and extension are both keys, with different values
C8_Witness ==
    /\ WasResolved
    /\ IsPathKey(resolved.path) /\ IsExtensionKey(resolved.path)
    /\ FromLastDot(resolved.path) # resolved.path
    /\ strategyMapping[FromLastDot(resolved.path)] # strategyMapping[resolved.path]
    /\ resolved.strategy = strategyMapping[resolved.path]

\* C9: a request whose path is no key but whose extension is one resolves to
\* the value of the extension, not to the default.
C9_ExtensionRule ==
    (WasResolved /\ ~IsPathKey(resolved.path) /\ IsExtensionKey(resolved.path))
        => resolved.strategy = strategyMapping[FromLastDot(resolved.path)]

\* the extension is a key and a different default is configured
C9_Witness ==
    /\ WasResolved
    /\ ~IsPathKey(resolved.path) /\ IsExtensionKey(resolved.path)
    /\ DefaultKey \in DOMAIN strategyMapping
    /\ strategyMapping[DefaultKey] # strategyMapping[FromLastDot(resolved.path)]
    /\ resolved.strategy = strategyMapping[FromLastDot(resolved.path)]

\* C10: a request matching neither a path key nor an extension key resolves
\* to the value of 'default', or to network-first without a default; every
\* resolution yields a strategy name.
C10_DefaultAndTotal ==
    WasResolved =>
        /\ resolved.strategy \in StrategyNames
        /\ (~IsPathKey(resolved.path) /\ ~IsExtensionKey(resolved.path))
              => resolved.strategy =
                    IF DefaultKey \in DOMAIN strategyMapping
                    THEN strategyMapping[DefaultKey]
                    ELSE NetworkFirstName

\* a path without '.' matches no key and gets a configured default that is
\* not network-first
C10_Witness ==
    /\ WasResolved
    /\ ~HasDot(resolved.path) /\ ~IsPathKey(resolved.path)
    /\ DefaultKey \in DOMAIN strategyMapping
    /\ strategyMapping[DefaultKey] = CacheFirstName
    /\ resolved.strategy = CacheFirstName

----------------------------------------------------------------------------
(* Install, preload and activation *)

Precached == {precacheFiles[k] : k \in DOMAIN precacheFiles}

PastInstall == phase \in {"installed", "activating", "active"}

\* C11: the install event stays pending until preCache has settled, although
\* skipWaiting is requested at once: the event cannot end while preCache is
\* suspended, and the worker is neither installed, activated nor handed a
\* fetch event before preCache has stored the whole list or failed.
C11_InstallWaitsForPreload ==
    /\ (phase = "installing" /\ ~PreCacheSettled(pre)) =>
           (installEv.skipWaiting /\ ~ENABLED InstallSettled)
    /\ (PastInstall \/ reqs # <<>>) => pre \in {"stored", "failed"}
    /\ pre = "stored" => \A u \in Precached : cache[u] # NoResponse

C11_Witness ==
    /\ phase = "installing"
    /\ installEv.skipWaiting
    /\ pre = "addAll"

\* the worker with logging as any configuration may set it (the default of
\* config.enableLogging is false)
AnyLoggingInit == WorkerInit /\ enableLogging \in BOOLEAN

SpecAnyLogging == AnyLoggingInit /\ [][Next]_vars

\* what the platform and an operator can see of a preload: how the promise
\* handed to waitUntil settled, and what was written to the console
PreloadObservation ==
    [promise |-> IF pre = "rejected" THEN "rejected" ELSE "resolved",
     console |-> console]

SuccessObservation ==
    [promise |-> "resolved",
     console |-> log(enableLogging, {}, {CompletedMessage})]

\* C12: a failed preload is observable in every configuration, logging
\* disabled included: what can be seen of it (an error result or a log
\* record) differs from what is seen of a successful preload.
C12_PreloadFailureObservable ==
    pre = "failed" => PreloadObservation # SuccessObservation

\* C13 as the specification states it: once the install phase is over, a
\* cacheFirst request for a file of the precache list, its cache operations
\* resolving, is answered from the cache without any network call.
C13_PrecachedWithoutNetwork ==
    \A i \in DOMAIN reqs :
        (/\ PastInstall
         /\ IsCacheFirst(reqs[i])
         /\ reqs[i].url \in Precached
         /\ reqs[i].looked # "error"
         /\ reqs[i].pc # "rejected") =>
            (reqs[i].looked # "absent" /\ reqs[i].net = "none")

\* C13: once the install phase is over with a successful preload (the whole
\* list stored), a cacheFirst request for a file of the precache list never
\* finds the entry missing: a lookup that resolves returns the stored
\* response without any network call, and only a lookup that rejects leads
\* to the network.
C13_PrecachedHit ==
    pre = "stored" =>
        \A i \in DOMAIN reqs :
            (IsCacheFirst(reqs[i]) /\ reqs[i].url \in Precached) =>
                /\ reqs[i].looked # "absent"
                /\ reqs[i].looked = "found" =>
                       /\ reqs[i].pc = "done"
                       /\ reqs[i].net = "none"
                       /\ reqs[i].resp.kind = "network"
                       /\ reqs[i].resp.url = reqs[i].url
                /\ reqs[i].net # "none" => reqs[i].looked = "error"

C13_Witness ==
    /\ pre = "stored"
    /\ phase = "active"
    /\ \E i \in DOMAIN reqs :
           /\ IsCacheFirst(reqs[i])
           /\ reqs[i].url \in Precached
           /\ reqs[i].pc = "done"
           /\ reqs[i].looked = "found"
           /\ reqs[i].net = "none"

\* C14: a preload failure does not prevent activation.  preCache never
\* rejects, so the worker is never discarded; after a failed preload the
\* install event can end with the worker installed, the installed worker can
\* be activated, and the active worker is handed fetch events although the
\* cache holds nothing of the list.
C14_FailureDoesNotPreventActivation ==
    /\ pre # "rejected"
    /\ phase # "redundant"
    /\ pre = "failed" =>
           /\ phase = "installing" => ENABLED (InstallSettled /\ phase' = "installed")
           /\ phase = "installed" => ENABLED ActivateEvent
           /\ phase = "activating" => ENABLED ClaimSettled
           /\ (phase = "active" /\ Len(reqs) < MaxReq) =>
                  \A p \in Urls : ENABLED FetchEvent(p)

C14_Witness ==
    /\ pre = "failed"
    /\ phase = "active"
    /\ \A u \in Precached : cache[u] = NoResponse
    /\ \E i \in DOMAIN reqs : reqs[i].pc = "done"

----------------------------------------------------------------------------
(* Concurrent fetch events *)

OwnNetworkResponse(r) == r.resp.kind = "network" /\ r.resp.url = r.url

\* what cacheFirst answers: the entry it found, or the response of its own
\* fetch, or the synthetic 503 when that fetch failed
CacheFirstContract(r) ==
    r.pc = "done" =>
        \/ r.looked = "found" /\ r.net = "none" /\ OwnNetworkResponse(r)
        \/ r.looked \in {"absent", "error"} /\ r.net = "ok"
              /\ OwnNetworkResponse(r) /\ r.put # "none"
        \/ r.looked \in {"absent", "error"} /\ NetFailed(r)
              /\ r.resp = Offline503 /\ r.put = "none"

\* what networkFirst answers: the response of its own fetch, or after a
\* failed fetch the entry it found, or the synthetic 503
NetworkFirstContract(r) ==
    r.pc = "done" =>
        \/ r.net = "ok" /\ r.looked = "none"
              /\ OwnNetworkResponse(r) /\ r.put # "none"
        \/ NetFailed(r) /\ r.looked = "found" /\ OwnNetworkResponse(r)
        \/ NetFailed(r) /\ r.looked = "absent"
              /\ r.resp = Offline503 /\ r.put = "none"

\* C15: a cacheFirst request for one key and a networkFirst request for
\* another key, handled at the same time, are independent: as long as one of
\* them is unanswered its next step can be taken whatever the other is
\* waiting for (a fetch of the other that never settles included), and each
\* is answered as its own strategy prescribes, with a response for its own
\* key.
C15_IndependentRequests ==
    \A i, j \in DOMAIN reqs :
        (/\ IsCacheFirst(reqs[i])
         /\ IsNetworkFirst(reqs[j])
         /\ reqs[i].url # reqs[j].url) =>
            /\ ~Settled(reqs[i]) => ENABLED Advance(i)
            /\ ~Settled(reqs[j]) => ENABLED Advance(j)
            /\ CacheFirstContract(reqs[i])
            /\ NetworkFirstContract(reqs[j])

\* the later of the two is answered while the fetch of the earlier one is
\* still pending
C15_Witness ==
    \E i, j \in DOMAIN reqs :
        /\ i < j
        /\ reqs[i].url # reqs[j].url
        /\ \/ /\ IsCacheFirst(reqs[i]) /\ reqs[i].pc = "fac_fetch"
              /\ IsNetworkFirst(reqs[j]) /\ reqs[j].pc = "done"
           \/ /\ IsNetworkFirst(reqs[i]) /\ reqs[i].pc = "nf_fetch"
              /\ IsCacheFirst(reqs[j]) /\ reqs[j].pc = "done"

----------------------------------------------------------------------------
(* The store of networkFirst *)

\* the step in which the fetch of networkFirst request i resolves with a
\* response returns that response at once, the write only just started
C16_ReturnStep ==
    \A i \in DOMAIN reqs :
        (/\ IsNetworkFirst(reqs[i])
         /\ reqs[i].pc = "nf_fetch"
         /\ reqs'[i].net = "ok") =>
            /\ reqs'[i].pc = "done"
            /\ OwnNetworkResponse(reqs'[i])
            /\ reqs'[i].put = "pending"
            /\ cache' = cache

\* no later step, the write committing or failing included, touches the answer
C16_SettleStep ==
    \A i \in DOMAIN reqs :
        (IsNetworkFirst(reqs[i]) /\ reqs[i].pc = "done") =>
            /\ reqs'[i].pc = "done"
            /\ reqs'[i].resp = reqs[i].resp
            /\ reqs'[i].err = "none"

\* whatever became of the write, the response of a successful fetch has been
\* returned
C16_ReturnedState ==
    \A i \in DOMAIN reqs :
        (IsNetworkFirst(reqs[i]) /\ reqs[i].net = "ok") =>
            /\ reqs[i].pc = "done"
            /\ OwnNetworkResponse(reqs[i])
            /\ reqs[i].err = "none"
            /\ reqs[i].put \in {"pending", "committed", "failed"}

\* C16: the store of networkFirst is fire-and-forget.  After a successful
\* fetch the live response is returned in the same step, without waiting for
\* the cache write; a write that fails or never completes neither delays,
\* changes nor fails the response.
C16_FireAndForget ==
    []C16_ReturnedState /\ [][C16_ReturnStep /\ C16_SettleStep]_vars

\* the write has failed and the response stands
C16_Witness ==
    \E i \in DOMAIN reqs :
        /\ IsNetworkFirst(reqs[i])
        /\ reqs[i].pc = "done"
        /\ reqs[i].net = "ok"
        /\ reqs[i].put = "failed"
        /\ OwnNetworkResponse(reqs[i])

----------------------------------------------------------------------------
(* The else branch of the fetch listener *)

IsPassThrough(r) == r.strategy \notin {CacheFirstName, NetworkFirstName}

\* a pass-through request never looks into the cache and never writes to
\* it; it ends with the response of the network, or rejected as the fetch was
C17_PassThroughState ==
    \A i \in DOMAIN reqs :
        IsPassThrough(reqs[i]) =>
            /\ reqs[i].looked = "none"
            /\ reqs[i].put = "none"
            /\ lastPut[reqs[i].url] # i
            /\ reqs[i].resp # Offline503
            /\ reqs[i].pc = "done" => (reqs[i].net = "ok" /\ OwnNetworkResponse(reqs[i]))
            /\ reqs[i].pc = "rejected" =>
                   (NetFailed(reqs[i]) /\ reqs[i].resp = NoResponse
                    /\ reqs[i].err \in {"NetworkError", "TypeError"})

\* the step that settles a pass-through request hands on what the network
\* serves at that moment and leaves the cache as it is
C17_PassThroughStep ==
    \A i \in DOMAIN reqs :
        (IsPassThrough(reqs[i]) /\ reqs'[i] # reqs[i]) =>
            /\ cache' = cache
            /\ reqs[i].pc = "pt_fetch"
            /\ reqs'[i].pc = "done" =>
                   Resolved(reqs'[i].resp) \in FetchResults(reqs[i].url, netVer)
            /\ reqs'[i].pc = "rejected" =>
                   (reqs'[i].err = "NetworkError") = (reqs'[i].net = "error")

\* C17: a pass-through request is forwarded to the network and answered with
\* exactly what the network yields, a rejection on a network error included
\* (no synthetic 503); the cache is neither read nor written.
C17_PassThrough ==
    []C17_PassThroughState /\ [][C17_PassThroughStep]_vars

\* a pass-through request rejected by a network error, the cache still
\* holding an entry for its key
C17_Witness ==
    \E i \in DOMAIN reqs :
        /\ IsPassThrough(reqs[i])
        /\ reqs[i].pc = "rejected"
        /\ reqs[i].err = "NetworkError"
        /\ \E u \in Urls : cache[u] # NoResponse

----------------------------------------------------------------------------
(* The cache *)

\* the step is the install time preload storing the list, u in it
PreloadStores(u) ==
    /\ pre = "addAll"
    /\ pre' = "stored"
    /\ u \in Precached

\* the step commits the store that request i started after its own
\* successful fetch, on the miss path of cacheFirst or in networkFirst
StoreCommits(i, u) ==
    /\ reqs[i].url = u
    /\ \/ IsCacheFirst(reqs[i]) /\ reqs[i].looked \in {"absent", "error"}
       \/ IsNetworkFirst(reqs[i])
    /\ reqs[i].net = "ok"
    /\ reqs[i].put = "pending"
    /\ reqs'[i].put = "committed"
    /\ cache'[u] = reqs[i].resp

C18_CacheStep ==
    \A u \in Urls :
        /\ cache[u] # NoResponse => cache'[u] # NoResponse
        /\ cache'[u] # cache[u] =>
               \/ PreloadStores(u)
               \/ \E i \in DOMAIN reqs : StoreCommits(i, u)

\* C18: cache entries are never destroyed by a strategy: the set of keys
\* only grows, and the value of an entry changes only through the install
\* time preload or through the store that follows a successful network
\* fetch, on a cacheFirst miss or under networkFirst.
C18_EntriesNeverDestroyed == [][C18_CacheStep]_vars

\* the preloaded entry has been replaced by the store of a request
C18_Witness ==
    \E u \in Precached :
        /\ pre = "stored"
        /\ lastPut[u] \in DOMAIN reqs
        /\ cache[u] # NoResponse

\* C19: stores to the same key race as last-write-wins, without corruption.
\* An entry is absent, or the response preloaded for its key, or a network
\* response fetched for that same key; once a store of a request has
\* committed, the entry is the response of the request whose store
\* committed last, whatever the order in which the requests arrived.
C19_LastWriteWins ==
    \A u \in Urls :
        /\ cache[u] # NoResponse => (cache[u].kind = "network" /\ cache[u].url = u)
        /\ lastPut[u] = 0 =>
               (cache[u] = NoResponse \/ (pre = "stored" /\ u \in Precached))
        /\ lastPut[u] # 0 =>
               /\ lastPut[u] \in DOMAIN reqs
               /\ reqs[lastPut[u]].url = u
               /\ reqs[lastPut[u]].put = "committed"
               /\ cache[u] = reqs[lastPut[u]].resp

\* two stores to one key have both committed, the earlier request's last,
\* and the two responses differ
C19_Witness ==
    \E i, j \in DOMAIN reqs :
        /\ i < j
        /\ reqs[i].url = reqs[j].url
        /\ reqs[i].put = "committed"
        /\ reqs[j].put = "committed"
        /\ reqs[i].resp # reqs[j].resp
        /\ lastPut[reqs[i].url] = i
        /\ cache[reqs[i].url] = reqs[i].resp

----------------------------------------------------------------------------
(* One answer for each fetch event *)

\* the await positions of each branch of the fetch listener
BranchPositions(r) ==
    IF IsCacheFirst(r) THEN {"cf_open", "cf_match", "fac_open", "fac_fetch"}
    ELSE IF IsNetworkFirst(r) THEN {"nf_open", "nf_fetch", "nf_match"}
    ELSE {"pt_fetch"}

\* C20: each fetch event resolves exactly one strategy and respondWith is
\* called once, with the promise of that strategy's branch; and a cacheFirst
\* or networkFirst request whose cache operations and fetch have all settled
\* has received a response.
C20_OneResponseEach ==
    \A i \in DOMAIN reqs :
        /\ reqs[i].strategy = determineStrategy(strategyMapping, reqs[i].url)
        /\ reqs[i].pc \in BranchPositions(reqs[i]) \cup {"done", "rejected"}
        /\ (reqs[i].pc = "done") = (reqs[i].resp # NoResponse)
        /\ (Settled(reqs[i]) /\ ~IsPassThrough(reqs[i])) =>
               (reqs[i].pc = "done" /\ reqs[i].resp # NoResponse)

\* every promise a request awaits settles in the end
SpecFair ==
    Spec /\ \A i \in 1..MaxReq : WF_vars(i \in DOMAIN reqs /\ Advance(i))

\* under that condition every request ends, answered or rejected
EventuallySettled ==
    \A i \in 1..MaxReq :
        [](i \in DOMAIN reqs => <>(i \in DOMAIN reqs /\ Settled(reqs[i])))

----------------------------------------------------------------------------
(* The synthetic response and the status of a network response *)

\* C21: the synthetic 503 is never written to the cache.  No entry is the
\* synthetic response, no request that was answered with it has started a
\* store, and no lookup, of cacheFirst or of the fallback of networkFirst,
\* has found it.
C21_OfflineNeverStored ==
    /\ \A u \in Urls : cache[u] # Offline503 /\ cache[u].kind # "synthetic"
    /\ \A i \in DOMAIN reqs :
           /\ reqs[i].resp = Offline503 => reqs[i].put = "none"
           /\ reqs[i].put # "none" => reqs[i].resp.kind = "network"
           /\ reqs[i].looked = "found" => reqs[i].resp.kind = "network"

\* a request was answered with the synthetic 503, and the lookup of the next
\* request for the same key, made after that answer, finds nothing
C21_Witness ==
    \E i, j \in DOMAIN reqs :
        /\ j = i + 1
        /\ reqs[j].afterPrev
        /\ reqs[i].url = reqs[j].url
        /\ reqs[i].resp = Offline503
        /\ reqs[j].looked = "absent"
        /\ cache[reqs[i].url] = NoResponse

\* C22: success of the network is the fetch resolving with a response,
\* whatever its status.  Under networkFirst and on the miss path of
\* cacheFirst such a response, an HTTP error included, is returned and its
\* store started, and the store that commits replaces the entry of the key;
\* the fallback lookup and the synthetic 503 appear only after a fetch that
\* rejected or yielded null.
C22_SuccessIsNonNull ==
    \A i \in DOMAIN reqs :
        ~IsPassThrough(reqs[i]) =>
            /\ reqs[i].net = "ok" =>
                   /\ reqs[i].pc = "done"
                   /\ OwnNetworkResponse(reqs[i])
                   /\ reqs[i].put # "none"
            /\ (reqs[i].put = "committed" /\ lastPut[reqs[i].url] = i) =>
                   cache[reqs[i].url] = reqs[i].resp
            /\ reqs[i].resp = Offline503 => NetFailed(reqs[i])
            /\ (IsNetworkFirst(reqs[i]) /\ reqs[i].pc = "nf_match") => NetFailed(reqs[i])
            /\ (IsNetworkFirst(reqs[i]) /\ reqs[i].looked # "none") => NetFailed(reqs[i])

\* a response with an error status was returned and its store replaced the
\* ok response an earlier request had stored under the key
C22_Witness ==
    \E i, j \in DOMAIN reqs :
        /\ i # j
        /\ reqs[i].url = reqs[j].url
        /\ reqs[i].put = "committed"
        /\ IsOk(reqs[i].resp)
        /\ reqs[j].pc = "done"
        /\ reqs[j].net = "ok"
        /\ ~IsOk(reqs[j].resp)
        /\ reqs[j].put = "committed"
        /\ lastPut[reqs[j].url] = j
        /\ cache[reqs[j].url] = reqs[j].resp

====
